---- MODULE Spec2Model ----
(***************************************************************************)
(* Model of src/index.js: the SwitchAccessory of the Sonoff DIY Mini       *)
(* plugin and its Queue (the tick-driven dispatcher with an immediate      *)
(* lane, a generic lane, an "attempt" path and a cooldown after each       *)
(* task).  Everything runs on one event loop, so every handler (a timer    *)
(* callback, a host request, the continuation of a finished device call)   *)
(* is one atomic action.                                                   *)
(*                                                                         *)
(* JavaScript values are written as strings: "true", "false",              *)
(* "undefined"; the switch position on the wire is "on" / "off"; the       *)
(* `error` field of a response body is "null", "0" or "400".               *)
(* Time is counted in milliseconds and advances in steps of Step.          *)
(***************************************************************************)
EXTENDS Integers, Sequences, FiniteSets, TLC

\* ---------------------------------------------------------------- constants
POLLING_INTERVAL == 5000
frequency == 2
wait == 100
\* Math.ceil(1000 / frequency)
timeout == (1000 + frequency - 1) \div frequency

\* ------------------------------------------------------------------- bounds
\* tasks in the generic lane of a Queue whose client fills it
MaxQueued == 1
\* SET requests the host issues, poll tasks that are started
MaxSets == 2
MaxPolls == 3
\* the same under the specification that counts the milliseconds
MaxSetsT == 2
MaxPollsT == 1

\* granularity of the clock: half the shortest timer delay of the program
Step == wait \div 2

VARIABLES
    started,            \* getServices() has run: handlers registered, poll timer armed
    requests,           \* Queue.requests
    immediateRequests,  \* Queue.immediateRequests
    inProgress,         \* Queue.inProgress
    state,              \* SwitchAccessory.state
    executing,          \* tasks whose device call is in flight (cb() awaited in run)
    timers,             \* pending setTimeout(() => inProgress = false, wait): ms left
    tickLeft,           \* ms until the setInterval(iteration, timeout) timer is due
    pollLeft,           \* ms until the setInterval(loadState, POLLING_INTERVAL) timer is due
    nextId,             \* number of SET requests received so far
    setsLeft,           \* SET requests still to come
    pollsLeft,          \* poll tasks still to be started; Unlimited: not counted
    answers,            \* what the device may answer to a request in this run
    values,             \* the values the host may ask for in this run
    callbacks,          \* calls of the host's set callback: <<id, error>>
    notified,           \* values passed to onCharacteristic.updateValue, in order
    lastOk,             \* value of the most recently completed successful operation
    pollLog,            \* the poll tasks that ran to their end, in order
    sinceEnd,           \* ms since the last task completed, capped at wait
    sinceStart,         \* ms since the last task was started, capped at timeout
    startedBy,          \* the handler that started the last task
    ev                  \* the handler that ran last, with what it did

vars == <<started, requests, immediateRequests, inProgress, state, executing,
          timers, tickLeft, pollLeft, nextId, setsLeft, pollsLeft, answers,
          values, callbacks, notified, lastOk, pollLog, sinceEnd, sinceStart,
          startedBy, ev>>

\* ------------------------------------------------------------------- values
Undefined == "undefined"
Bools == {"true", "false"}
Null == "null"
Errors == {Null, "0", "400"}
Transport == [kind |-> "transport", error |-> "ECONNREFUSED", switch |-> "off"]
Bodies == [kind : {"body"}, error : Errors, switch : {"on", "off"}]
\* what axios.post can deliver for one request
Responses == {Transport} \cup Bodies

\* JavaScript truthiness of the `error` field: null and 0 are falsy
Truthy(e) == e \notin {Null, "0"}

\* data.switch === "on"
IsOn(word) == IF word = "on" THEN "true" ELSE "false"

SetCb(id, value) == [kind |-> "set", id |-> id, value |-> value]
PollCb == [kind |-> "poll", id |-> 0, value |-> Undefined]

\* a device that either refuses the connection or reports the switch on
FailOrOn == {Transport, [kind |-> "body", error |-> Null, switch |-> "on"]}

\* a poll budget that is not counted down, and whose polls are not logged
Unlimited == 0 - 1

\* a settled promise
Resolve(v) == [rejected |-> FALSE, value |-> v]
Reject(e) == [rejected |-> TRUE, value |-> e]

NoCb == [kind |-> "none", id |-> 0, value |-> Undefined]
NoResp == [kind |-> "none", error |-> Null, switch |-> "off"]
\* the handler that ran, the task and the response it was about, and what it
\* handed to the host's get callback
Ev(n, cb, r) == [name |-> n, cb |-> cb, resp |-> r, reply |-> "none"]
NoEv == Ev("init", NoCb, NoResp)

\* -------------------------------------------------------------------- Init
Constructed ==
    /\ started = FALSE
    /\ requests = <<>>
    /\ immediateRequests = <<>>
    /\ inProgress = FALSE
    /\ state = Undefined
    /\ executing = <<>>
    /\ timers = <<>>
    /\ tickLeft = timeout
    /\ pollLeft = 0
    /\ nextId = 0
    /\ callbacks = <<>>
    /\ notified = <<>>
    /\ lastOk = Undefined
    /\ pollLog = <<>>
    /\ sinceEnd = wait
    /\ sinceStart = timeout
    /\ startedBy = "none"
    /\ ev = NoEv

Init ==
    /\ Constructed
    /\ setsLeft = MaxSets
    /\ pollsLeft = MaxPolls
    /\ answers = Responses
    /\ values = Bools

InitT ==
    /\ Constructed
    /\ setsLeft = MaxSetsT
    /\ pollsLeft = MaxPollsT
    /\ answers = FailOrOn
    /\ values = {"true"}

\* the Queue on its own, with a client that has filled the generic lane
\* (Queue.requests is a public field; no call site of the accessory fills it)
InitQ ==
    /\ started = FALSE
    /\ requests = [j \in 1..MaxQueued |-> PollCb]
    /\ immediateRequests = <<>>
    /\ inProgress = FALSE
    /\ state = Undefined
    /\ executing = <<>>
    /\ timers = <<>>
    /\ tickLeft = timeout
    /\ pollLeft = 0
    /\ nextId = 0
    /\ callbacks = <<>>
    /\ notified = <<>>
    /\ lastOk = Undefined
    /\ pollLog = <<>>
    /\ sinceEnd = wait
    /\ sinceStart = timeout
    /\ startedBy = "none"
    /\ ev = NoEv
    /\ setsLeft = MaxSets
    /\ pollsLeft = MaxPollsT
    /\ answers = FailOrOn
    /\ values = Bools

\* a run whose poll timer fires for ever
InitL ==
    /\ Constructed
    /\ setsLeft = MaxSetsT
    /\ pollsLeft = Unlimited
    /\ answers = FailOrOn
    /\ values = {"true"}

Min(a, b) == IF a < b THEN a ELSE b
Max(a, b) == IF a > b THEN a ELSE b
Remove(s, i) == [j \in 1..(Len(s) - 1) |-> IF j < i THEN s[j] ELSE s[j + 1]]
Count(s, id) == Cardinality({j \in 1..Len(s) : s[j][1] = id})

\* the task a handler started, if it started one
StartedCb(before, after) ==
    IF Len(after) > Len(before) THEN after[Len(after)] ELSE NoCb

\* the clock of the last task start is reset when a handler started a task
StampStart(handler, before, after) ==
    IF Len(after) > Len(before)
    THEN sinceStart' = 0 /\ startedBy' = handler
    ELSE UNCHANGED <<sinceStart, startedBy>>

\* ------------------------------------------------------------------- Queue
\* immediate that puts the new task at the front
ImmediateFront(cb) ==
    immediateRequests' = <<cb>> \o immediateRequests

\* Queue.immediate(cb)
Immediate(cb) ==
    immediateRequests' = Append(immediateRequests, cb)

\* run that forgets to raise the flag
RunUnflagged(cb) ==
    /\ inProgress' = inProgress
    /\ executing' = Append(executing, cb)

\* Queue.run(cb) up to its await: the flag is set and cb() is called
Run(cb) ==
    /\ inProgress' = TRUE
    /\ executing' = Append(executing, cb)

\* attempt that looks for a running task instead of the flag
AttemptCooling(cb) ==
    IF Len(executing) = 0
    THEN Run(cb)
    ELSE UNCHANGED <<inProgress, executing>>

\* attempt that does not look at the flag
AttemptAlways(cb) == Run(cb)

\* Queue.attempt(cb)
Attempt(cb) ==
    IF ~inProgress
    THEN Run(cb)
    ELSE UNCHANGED <<inProgress, executing>>

\* a cooldown of half the configured wait
CooldownHalved == wait \div 2

\* delay of the timer armed in the finally block of Queue.run
CooldownDelay == wait

\* run whose timer is never armed
RunNoFinally(i) ==
    /\ executing' = Remove(executing, i)
    /\ timers' = timers

\* Queue.run(cb) after its await: catch logs, finally arms the timer
RunFinally(i) ==
    /\ executing' = Remove(executing, i)
    /\ timers' = Append(timers, CooldownDelay)

\* iteration without its early return on inProgress
IterationUngated ==
    /\ tickLeft = 0
    /\ tickLeft' = timeout
    /\ IF Len(immediateRequests) > 0
       THEN /\ immediateRequests' = Tail(immediateRequests)
            /\ Run(Head(immediateRequests))
            /\ UNCHANGED requests
       ELSE IF Len(requests) > 0
       THEN /\ requests' = Tail(requests)
            /\ Run(Head(requests))
            /\ UNCHANGED immediateRequests
       ELSE UNCHANGED <<requests, immediateRequests, inProgress, executing>>
    /\ ev' = Ev("iteration", StartedCb(executing, executing'), NoResp)
    /\ StampStart("iteration", executing, executing')
    /\ UNCHANGED <<answers, values>>
    /\ UNCHANGED <<started, state, timers, pollLeft, sinceEnd, nextId,
                   setsLeft, pollsLeft, callbacks, notified, lastOk, pollLog>>

\* iteration that looks at the generic lane first
IterationQueuedFirst ==
    /\ tickLeft = 0
    /\ tickLeft' = timeout
    /\ IF inProgress
       THEN UNCHANGED <<requests, immediateRequests, inProgress, executing>>
       ELSE IF Len(requests) > 0
       THEN /\ requests' = Tail(requests)
            /\ Run(Head(requests))
            /\ UNCHANGED immediateRequests
       ELSE IF Len(immediateRequests) > 0
       THEN /\ immediateRequests' = Tail(immediateRequests)
            /\ Run(Head(immediateRequests))
            /\ UNCHANGED requests
       ELSE UNCHANGED <<requests, immediateRequests, inProgress, executing>>
    /\ ev' = Ev("iteration", StartedCb(executing, executing'), NoResp)
    /\ StampStart("iteration", executing, executing')
    /\ UNCHANGED <<answers, values>>
    /\ UNCHANGED <<started, state, timers, pollLeft, sinceEnd, nextId,
                   setsLeft, pollsLeft, callbacks, notified, lastOk, pollLog>>

\* iteration on an interval timer set to wait instead of timeout
IterationFast ==
    /\ tickLeft = 0
    /\ tickLeft' = wait
    /\ IF inProgress
       THEN UNCHANGED <<requests, immediateRequests, inProgress, executing>>
       ELSE IF Len(immediateRequests) > 0
       THEN /\ immediateRequests' = Tail(immediateRequests)
            /\ Run(Head(immediateRequests))
            /\ UNCHANGED requests
       ELSE IF Len(requests) > 0
       THEN /\ requests' = Tail(requests)
            /\ Run(Head(requests))
            /\ UNCHANGED immediateRequests
       ELSE UNCHANGED <<requests, immediateRequests, inProgress, executing>>
    /\ ev' = Ev("iteration", StartedCb(executing, executing'), NoResp)
    /\ StampStart("iteration", executing, executing')
    /\ UNCHANGED <<answers, values>>
    /\ UNCHANGED <<started, state, timers, pollLeft, sinceEnd, nextId,
                   setsLeft, pollsLeft, callbacks, notified, lastOk, pollLog>>

\* Queue.iteration, one firing of the setInterval(this.iteration, timeout) timer
Iteration ==
    /\ tickLeft = 0
    /\ tickLeft' = timeout
    /\ IF inProgress
       THEN UNCHANGED <<requests, immediateRequests, inProgress, executing>>
       ELSE IF Len(immediateRequests) > 0
       THEN /\ immediateRequests' = Tail(immediateRequests)
            /\ Run(Head(immediateRequests))
            /\ UNCHANGED requests
       ELSE IF Len(requests) > 0
       THEN /\ requests' = Tail(requests)
            /\ Run(Head(requests))
            /\ UNCHANGED immediateRequests
       ELSE UNCHANGED <<requests, immediateRequests, inProgress, executing>>
    /\ ev' = Ev("iteration", StartedCb(executing, executing'), NoResp)
    /\ StampStart("iteration", executing, executing')
    /\ UNCHANGED <<answers, values>>
    /\ UNCHANGED <<started, state, timers, pollLeft, sinceEnd, nextId, setsLeft, pollsLeft,
                   callbacks, notified, lastOk, pollLog>>

\* the timer armed by Queue.run fires: () => this.inProgress = false
CooldownFire(i) ==
    /\ i \in 1..Len(timers)
    /\ timers[i] = 0
    /\ inProgress' = FALSE
    /\ timers' = Remove(timers, i)
    /\ ev' = Ev("cooldown", NoCb, NoResp)
    /\ UNCHANGED <<sinceStart, startedBy, answers, values>>
    /\ UNCHANGED <<started, requests, immediateRequests, state, executing,
                   tickLeft, pollLeft, sinceEnd, nextId, setsLeft, pollsLeft, callbacks,
                   notified, lastOk, pollLog>>

\* --------------------------------------------------------- SwitchAccessory
\* getServices(): registers the handlers and calls trackState()
GetServices ==
    /\ ~started
    /\ started' = TRUE
    /\ pollLeft' = POLLING_INTERVAL
    /\ ev' = Ev("getServices", NoCb, NoResp)
    /\ UNCHANGED <<sinceStart, startedBy, answers, values>>
    /\ UNCHANGED <<requests, immediateRequests, inProgress, state, executing,
                   timers, tickLeft, sinceEnd, nextId, setsLeft, pollsLeft, callbacks,
                   notified, lastOk, pollLog>>

\* a set handler that runs its task at once when the queue is idle
SetHandlerEager(value) ==
    /\ started
    /\ setsLeft > 0
    /\ setsLeft' = setsLeft - 1
    /\ nextId' = nextId + 1
    /\ IF inProgress
       THEN Immediate(SetCb(nextId + 1, value)) /\ UNCHANGED <<inProgress, executing>>
       ELSE Run(SetCb(nextId + 1, value)) /\ UNCHANGED immediateRequests
    /\ ev' = Ev("set", SetCb(nextId + 1, value), NoResp)
    /\ UNCHANGED <<sinceStart, startedBy, answers, values>>
    /\ UNCHANGED <<started, requests, state, timers,
                   tickLeft, pollLeft, sinceEnd, pollsLeft, callbacks,
                   notified, lastOk, pollLog>>

\* a set handler that puts its task in the generic lane
SetHandlerQueued(value) ==
    /\ started
    /\ setsLeft > 0
    /\ setsLeft' = setsLeft - 1
    /\ nextId' = nextId + 1
    /\ requests' = Append(requests, SetCb(nextId + 1, value))
    /\ ev' = Ev("set", SetCb(nextId + 1, value), NoResp)
    /\ UNCHANGED <<sinceStart, startedBy, answers, values>>
    /\ UNCHANGED <<started, immediateRequests, inProgress, state, executing,
                   timers, tickLeft, pollLeft, sinceEnd, pollsLeft, callbacks,
                   notified, lastOk, pollLog>>

\* setOnCharacteristicHandler(value, callback)
SetOnCharacteristicHandler(value) ==
    /\ started
    /\ setsLeft > 0
    /\ setsLeft' = setsLeft - 1
    /\ nextId' = nextId + 1
    /\ Immediate(SetCb(nextId + 1, value))
    /\ ev' = Ev("set", SetCb(nextId + 1, value), NoResp)
    /\ UNCHANGED <<sinceStart, startedBy, answers, values>>
    /\ UNCHANGED <<started, requests, inProgress, state, executing, timers,
                   tickLeft, pollLeft, sinceEnd, pollsLeft, callbacks,
                   notified, lastOk, pollLog>>

\* a get handler that also refreshes the state from the device
GetHandlerRefresh ==
    /\ started
    /\ ev' = [Ev("get", NoCb, NoResp) EXCEPT !.reply = state]
    /\ Attempt(PollCb)
    /\ UNCHANGED <<sinceStart, startedBy, answers, values>>
    /\ UNCHANGED <<started, requests, immediateRequests, state,
                   timers, tickLeft, pollLeft, sinceEnd, nextId,
                   setsLeft, pollsLeft, callbacks, notified, lastOk, pollLog>>

\* getOnCharacteristicHandler(callback): callback(null, this.state)
GetOnCharacteristicHandler ==
    /\ started
    /\ ev' = [Ev("get", NoCb, NoResp) EXCEPT !.reply = state]
    /\ UNCHANGED <<sinceStart, startedBy, answers, values>>
    /\ UNCHANGED <<started, requests, immediateRequests, inProgress, state,
                   executing, timers, tickLeft, pollLeft, sinceEnd, nextId,
                   setsLeft, pollsLeft, callbacks, notified, lastOk, pollLog>>

\* loadState, one firing of the setInterval(this.loadState, POLLING_INTERVAL) timer
LoadState ==
    /\ started
    /\ pollLeft = 0
    /\ pollsLeft # 0
    /\ pollLeft' = POLLING_INTERVAL
    /\ Attempt(PollCb)
    /\ pollsLeft' = IF inProgress \/ pollsLeft = Unlimited
                    THEN pollsLeft ELSE pollsLeft - 1
    /\ ev' = Ev("loadState", StartedCb(executing, executing'), NoResp)
    /\ StampStart("loadState", executing, executing')
    /\ UNCHANGED <<answers, values>>
    /\ UNCHANGED <<started, requests, immediateRequests, state, timers,
                   tickLeft, sinceEnd, nextId, setsLeft, callbacks, notified,
                   lastOk, pollLog>>

\* request(path, data): axios.post(...).then(({data}) => data)
Request(r) ==
    IF r.kind = "transport" THEN Reject(r.error) ELSE Resolve(r)

\* setOn(value): return await this.request("/zeroconf/switch", ...)
SetOn(r) == Request(r)

\* getOn that does not look at the error field
GetOnUnchecked(r) ==
    IF Request(r).rejected
    THEN Request(r)
    ELSE Resolve(IsOn(Request(r).value.switch))

\* getOn(): rejects on a truthy error field, else data.switch === "on"
GetOn(r) ==
    IF Request(r).rejected
    THEN Request(r)
    ELSE IF Truthy(Request(r).value.error)
         THEN Reject(Request(r).value.error)
         ELSE Resolve(IsOn(Request(r).value.switch))

\* a set task that stores the value before the device has answered
SetTaskOptimistic(cb, r) ==
    /\ state' = cb.value
    /\ callbacks' = Append(callbacks, <<cb.id, IF SetOn(r).rejected
                                                THEN SetOn(r).value ELSE Null>>)

\* the task of setOnCharacteristicHandler:
\*   setOn(value).then(() => { this.state = value; callback(null); }).catch(callback)
SetTask(cb, r) ==
    IF SetOn(r).rejected
    THEN /\ callbacks' = Append(callbacks, <<cb.id, SetOn(r).value>>)
         /\ UNCHANGED state
    ELSE /\ state' = cb.value
         /\ callbacks' = Append(callbacks, <<cb.id, Null>>)

\* a poll task that notifies before it stores the new value
PollTaskNotifyFirst(r) ==
    IF GetOn(r).rejected
    THEN UNCHANGED <<state, notified>>
    ELSE IF state # GetOn(r).value
         THEN /\ state' = GetOn(r).value
              /\ notified' = Append(notified, state)
         ELSE UNCHANGED <<state, notified>>

\* a poll task that notifies without comparing
PollTaskAlways(r) ==
    IF GetOn(r).rejected
    THEN UNCHANGED <<state, notified>>
    ELSE /\ state' = GetOn(r).value
         /\ notified' = Append(notified, GetOn(r).value)

\* the task of loadState:
\*   newState = await getOn(); if (state !== newState) { state = newState; updateValue(state) }
PollTask(r) ==
    IF GetOn(r).rejected
    THEN UNCHANGED <<state, notified>>
    ELSE IF state # GetOn(r).value
         THEN /\ state' = GetOn(r).value
              /\ notified' = Append(notified, GetOn(r).value)
         ELSE UNCHANGED <<state, notified>>

\* the operation behind r succeeded: the device answered and reported no error
Succeeded(r) == r.kind = "body" /\ ~Truthy(r.error)

\* the value a successful operation delivers
Delivered(cb, r) == IF cb.kind = "set" THEN cb.value ELSE IsOn(r.switch)

\* one finished poll: the cache before and after it, what the device said
\* ("failed" when getOn rejected) and the notifications it raised
Polled(r, before, after, raisedBefore, raisedAfter) ==
    [before |-> before,
     result |-> IF Succeeded(r) THEN IsOn(r.switch) ELSE "failed",
     after |-> after,
     raised |-> SubSeq(raisedAfter, Len(raisedBefore) + 1, Len(raisedAfter))]

\* the device call of executing[i] settles with response r; the task runs to
\* its end and Queue.run resumes after `await cb()`
Complete(i, r) ==
    /\ i \in 1..Len(executing)
    /\ IF executing[i].kind = "set"
       THEN SetTask(executing[i], r) /\ UNCHANGED <<notified, pollLog>>
       ELSE /\ PollTask(r)
            /\ pollLog' = IF pollsLeft = Unlimited
                          THEN pollLog
                          ELSE Append(pollLog, Polled(r, state, state', notified, notified'))
            /\ UNCHANGED callbacks
    /\ RunFinally(i)
    /\ sinceEnd' = 0
    /\ lastOk' = IF Succeeded(r) THEN Delivered(executing[i], r) ELSE lastOk
    /\ ev' = Ev("complete", executing[i], r)
    /\ UNCHANGED <<sinceStart, startedBy, answers, values>>
    /\ UNCHANGED <<started, requests, immediateRequests, inProgress, tickLeft,
                   pollLeft, nextId, setsLeft, pollsLeft>>

\* -------------------------------------------------------------------- time
Elapse(left, d) == Max(left - d, 0)

\* Step ms pass
Advance ==
    /\ tickLeft' = Elapse(tickLeft, Step)
    /\ pollLeft' = Elapse(pollLeft, Step)
    /\ timers' = [j \in 1..Len(timers) |-> Elapse(timers[j], Step)]
    /\ sinceEnd' = Min(sinceEnd + Step, wait)
    /\ sinceStart' = Min(sinceStart + Step, timeout)
    /\ UNCHANGED <<startedBy, answers, values>>
    /\ ev' = Ev("advance", NoCb, NoResp)
    /\ UNCHANGED <<started, requests, immediateRequests, inProgress, state,
                   executing, nextId, setsLeft, pollsLeft, callbacks, notified,
                   lastOk, pollLog>>

\* a timer is due: its handler runs before the clock moves on
TimerDue ==
    \/ tickLeft = 0
    \/ started /\ pollLeft = 0 /\ pollsLeft # 0
    \/ \E j \in 1..Len(timers) : timers[j] = 0

\* Step ms pass on an event loop that runs every timer as soon as it is due
AdvancePunctual == ~TimerDue /\ Advance

\* enough time passes for every pending timer to be due
Sleep ==
    /\ tickLeft' = 0
    /\ pollLeft' = 0
    /\ timers' = [j \in 1..Len(timers) |-> 0]
    /\ sinceEnd' = wait
    /\ sinceStart' = timeout
    /\ UNCHANGED <<startedBy, answers, values>>
    /\ ev' = Ev("sleep", NoCb, NoResp)
    /\ UNCHANGED <<started, requests, immediateRequests, inProgress, state,
                   executing, nextId, setsLeft, pollsLeft, callbacks, notified,
                   lastOk, pollLog>>

Handlers ==
    \/ GetServices
    \/ \E value \in values : SetOnCharacteristicHandler(value)
    \/ GetOnCharacteristicHandler
    \/ LoadState
    \/ Iteration
    \/ \E i \in 1..Len(executing), r \in answers : Complete(i, r)
    \/ \E i \in 1..Len(timers) : CooldownFire(i)

\* the handlers in every order the timers allow, time left out
Next == Handlers \/ Sleep

Spec == Init /\ [][Next]_vars

\* the handlers on a clock
NextT == Handlers \/ Advance

SpecT == InitT /\ [][NextT]_vars

\* the handlers over a Queue whose generic lane is filled
SpecQ == InitQ /\ [][Next]_vars

\* ------------------------------------------------------------ properties
\* a task was started by the handler that ran last
Started == ev.name \in {"iteration", "loadState"} /\ ev.cb # NoCb

\* the dispatcher is cooling down: the flag is up and no task is executing
Cooling == inProgress /\ Len(executing) = 0

\* C1 - mutual exclusion: in every reachable state at most one task has
\* started and not yet completed, so at most one device call is in flight.
MutualExclusion == Len(executing) <= 1

\* a task is executing while a SET request waits and both interval timers are due
MutualExclusionWitness ==
    /\ Len(executing) = 1
    /\ Len(immediateRequests) > 0
    /\ tickLeft = 0
    /\ started /\ pollLeft = 0 /\ pollsLeft > 0

\* C2 - busy gate: a tick or a poll firing that finds inProgress set starts
\* no task, even with a non-empty immediate lane, and such a tick leaves both
\* lanes, the flag and the cached state as they were.
BusyGate ==
    [][(inProgress /\ ev'.name \in {"iteration", "loadState"})
         => /\ executing' = executing
            /\ (ev'.name = "iteration"
                  => UNCHANGED <<requests, immediateRequests, inProgress, state>>)]_vars

\* a tick ran during the cooldown with a SET request waiting
BusyGateWitness ==
    /\ ev.name = "iteration"
    /\ Cooling
    /\ Len(immediateRequests) > 0

\* a task has run to its end at some point
SomeTaskEnded == Len(callbacks) + Len(pollLog) > 0

\* C3 - cooldown spacing: for wait ms after a task has ended, successfully
\* or not, inProgress stays set, and the next task starts no earlier than
\* wait ms after that end.
CooldownSpacing ==
    /\ [](sinceEnd < wait => inProgress)
    /\ [][Len(executing') > Len(executing) => sinceEnd >= wait]_vars

\* a task was started after an earlier one had ended
CooldownSpacingWitness == Started /\ SomeTaskEnded /\ sinceEnd = wait

\* C4 - cache correctness: the cached state is the value of the most recently
\* completed successful set or poll, undefined before the first one, and no
\* failed set or poll changes it.
CacheCorrect == state = lastOk

\* the last handler was the end of a set task / of a poll task
SetEnded == ev.name = "complete" /\ ev.cb.kind = "set"
PollEnded == ev.name = "complete" /\ ev.cb.kind = "poll"

\* C5 - set failure: when the device call of a set task fails with a
\* transport error, the host's callback is called with that error, for the
\* first and only time, the cached state stays and nothing is notified.
SetFailure ==
    /\ [][(SetEnded' /\ ev'.resp.kind = "transport")
           => /\ callbacks' = Append(callbacks, <<ev'.cb.id, ev'.resp.error>>)
              /\ state' = state
              /\ notified' = notified]_vars
    /\ [](\A id \in 1..nextId : Count(callbacks, id) <= 1)

\* a set task failed in transport while the cache held the other value
SetFailureWitness ==
    /\ SetEnded
    /\ ev.resp.kind = "transport"
    /\ state \in Bools
    /\ state # ev.cb.value

\* C6 - protocol failure on the set path: a response whose error field is
\* non-null and reports an error (a code that getOn rejects on the poll path)
\* makes the host's callback receive an error and leaves the cached state as
\* it was.
SetProtocolFailure ==
    [][(SetEnded' /\ ev'.resp.kind = "body"
          /\ ev'.resp.error # Null /\ Truthy(ev'.resp.error))
         => /\ Len(callbacks') = Len(callbacks) + 1
            /\ callbacks'[Len(callbacks')][1] = ev'.cb.id
            /\ callbacks'[Len(callbacks')][2] # Null
            /\ state' = state]_vars

\* C7 - poll skip: a poll firing that finds inProgress set starts no device
\* call, changes neither the cache nor the notifications, and puts its task
\* in neither lane.
PollSkip ==
    [][(inProgress /\ ev'.name = "loadState")
         => UNCHANGED <<requests, immediateRequests, inProgress, executing,
                        timers, state, notified, callbacks, lastOk, pollLog>>]_vars

\* the poll timer fired while a set task was executing
PollSkipWitness ==
    /\ ev.name = "loadState"
    /\ ev.cb = NoCb
    /\ Len(executing) = 1
    /\ executing[1].kind = "set"

\* all notifications raised by the polls of a log, in order
RECURSIVE Raised(_)
Raised(log) ==
    IF log = <<>> THEN <<>> ELSE Raised(SubSeq(log, 1, Len(log) - 1)) \o log[Len(log)].raised

\* polls i, i+1, i+2 returned on, on, off with the cache at on before the first
ScenarioB(i) ==
    /\ i + 2 <= Len(pollLog)
    /\ pollLog[i].before = "true"
    /\ pollLog[i].result = "true"
    /\ pollLog[i + 1].before = "true"
    /\ pollLog[i + 1].result = "true"
    /\ pollLog[i + 2].before = "true"
    /\ pollLog[i + 2].result = "false"

\* C8 - change detection: a successful poll that returns the cached value
\* notifies nothing and leaves the cache, one that returns another value
\* stores it and notifies it exactly once; polls returning on, on, off with
\* the cache at on notify once, at the third poll, with false.
ChangeDetection ==
    /\ \A i \in 1..Len(pollLog) :
          pollLog[i].result \in Bools =>
            IF pollLog[i].result = pollLog[i].before
            THEN pollLog[i].raised = <<>> /\ pollLog[i].after = pollLog[i].before
            ELSE pollLog[i].raised = <<pollLog[i].result>>
                 /\ pollLog[i].after = pollLog[i].result
    /\ notified = Raised(pollLog)
    /\ \A i \in 1..Len(pollLog) :
          ScenarioB(i) => /\ pollLog[i].raised = <<>>
                          /\ pollLog[i + 1].raised = <<>>
                          /\ pollLog[i + 2].raised = <<"false">>

\* the three polls of the scenario have run
ChangeDetectionWitness == \E i \in 1..Len(pollLog) : ScenarioB(i)

\* what every ended poll task leaves alone, and the timer it arms
PollEndFrame ==
    /\ UNCHANGED <<requests, immediateRequests, inProgress>>
    /\ executing' = <<>>
    /\ timers' = <<wait>>

\* C9 - poll failure, for every non-null error field: a poll whose call fails in transport or is
\* answered with a non-null error field leaves the cache and the
\* notifications, is not queued again, and arms the cooldown timer.
PollFailureNonNull ==
    [][(PollEnded' /\ (ev'.resp.kind = "transport" \/ ev'.resp.error # Null))
         => /\ state' = state
            /\ notified' = notified
            /\ PollEndFrame]_vars

\* C9 - poll failure, for a transport failure or a truthy error field
\* (neither null nor 0): the cache and the notifications stay, the task is
\* not queued again, and the cooldown timer is armed.
PollFailure ==
    [][(PollEnded' /\ (ev'.resp.kind = "transport" \/ Truthy(ev'.resp.error)))
         => /\ state' = state
            /\ notified' = notified
            /\ PollEndFrame]_vars

\* a poll task is executing after an earlier poll failed on a truthy error
\* field while the cache held a value
PollFailureWitness ==
    /\ Len(executing) = 1
    /\ executing[1].kind = "poll"
    /\ \E i \in 1..Len(pollLog) :
          pollLog[i].result = "failed" /\ pollLog[i].before \in Bools

\* C10 - return to idle: once a task has ended, with success or failure,
\* inProgress is eventually cleared again.
ReturnToIdle == Cooling ~> ~inProgress

\* the timers fire when due and time passes
FairSpec ==
    /\ Init
    /\ [][Next]_vars
    /\ WF_vars(Sleep)
    /\ WF_vars(\E i \in 1..Len(timers) : CooldownFire(i))

\* the flag was cleared after a task that failed
ReturnToIdleWitness ==
    /\ ev.name = "cooldown"
    /\ ~inProgress
    /\ \/ \E i \in 1..Len(pollLog) : pollLog[i].result = "failed"
       \/ \E i \in 1..Len(callbacks) : callbacks[i][2] # Null

\* a step that starts a task
Starts == Len(executing') > Len(executing)

\* C11 - two-tier rate limit, for every pair of starts: a task starts no
\* earlier than timeout ms after the previous task started, and no earlier
\* than wait ms after the previous task ended.
RateLimit ==
    [][Starts => sinceStart >= timeout /\ sinceEnd >= wait]_vars

\* C11 - two-tier rate limit, for the starts the tick makes: a task started
\* by a tick right after a task started by a tick starts no earlier than
\* timeout ms after it; every task, a poll started by attempt included,
\* starts no earlier than wait ms after the previous task ended.
TickRateLimit ==
    [][Starts => /\ sinceEnd >= wait
                 /\ (ev'.name = "iteration" /\ startedBy = "iteration"
                       => sinceStart >= timeout)]_vars

\* the tick started the second SET request and no poll was started before
TickRateLimitWitness ==
    /\ Started
    /\ ev.name = "iteration"
    /\ ev.cb.id = 2
    /\ pollsLeft = MaxPollsT
    /\ sinceStart = 0

\* where the SET request id is: the ids waiting, executing and completed
Waiting == {immediateRequests[j].id : j \in 1..Len(immediateRequests)}
Executing == {executing[j].id : j \in {k \in 1..Len(executing) : executing[k].kind = "set"}}
Completed == {callbacks[j][1] : j \in 1..Len(callbacks)}

\* number of places request id is in
Places(id) ==
    Cardinality({j \in 1..Len(immediateRequests) : immediateRequests[j].id = id})
    + Cardinality({j \in 1..Len(executing) :
                     executing[j].kind = "set" /\ executing[j].id = id})
    + Count(callbacks, id)

\* C12 - immediate lane, first in first out and exactly once: every SET
\* request received is in exactly one place (waiting in the lane, executing,
\* or completed), the lane holds the requests in the order of their
\* submission, and every request that has left the lane was submitted before
\* every request still in it.
ImmediateFifo ==
    /\ \A id \in 1..nextId : Places(id) = 1
    /\ \A j \in 1..Len(immediateRequests) :
          /\ immediateRequests[j].kind = "set"
          /\ immediateRequests[j].id \in 1..nextId
    /\ \A j, k \in 1..Len(immediateRequests) :
          j < k => immediateRequests[j].id < immediateRequests[k].id
    /\ \A a \in Executing \cup Completed : \A b \in Waiting : a < b

\* the tick took the first request out of a lane that held both
ImmediateFifoWitness ==
    /\ ev.name = "iteration"
    /\ ev.cb.id = 1
    /\ 1 \in Executing
    /\ 2 \in Waiting

\* C13 - lane priority: a tick that finds inProgress clear and both lanes
\* filled starts the front of the immediate lane and leaves the generic
\* lane; a tick starts a task of the generic lane only when the immediate
\* lane is empty.
LanePriority ==
    [][(ev'.name = "iteration" /\ ~inProgress)
         => /\ (Len(immediateRequests) > 0 /\ Len(requests) > 0)
                 => /\ executing' = Append(executing, Head(immediateRequests))
                    /\ immediateRequests' = Tail(immediateRequests)
                    /\ requests' = requests
            /\ requests' # requests
                 => /\ Len(immediateRequests) = 0
                    /\ executing' = Append(executing, Head(requests))
                    /\ requests' = Tail(requests)]_vars

\* the tick started a SET request while the generic lane held a task
LanePriorityWitness ==
    /\ ev.name = "iteration"
    /\ ev.cb.kind = "set"
    /\ Len(executing) = 1
    /\ Len(requests) > 0

\* everything of the accessory and its queue but the immediate lane
AllButImmediate ==
    <<requests, inProgress, executing, timers, state, callbacks, notified,
      tickLeft, pollLeft>>

\* C14 - submitting only enqueues: the set handler appends its task to the
\* immediate lane and changes nothing else, whether the queue is idle or
\* not; a SET task is started only by a tick that finds inProgress clear,
\* hence no earlier than wait ms after the previous task ended.
SubmitOnlyEnqueues ==
    /\ [][ev'.name = "set"
            => /\ immediateRequests' = Append(immediateRequests, ev'.cb)
               /\ UNCHANGED AllButImmediate]_vars
    /\ [][(Starts /\ executing'[Len(executing')].kind = "set")
            => /\ ev'.name = "iteration"
               /\ ~inProgress
               /\ sinceEnd >= wait]_vars

\* a SET request arrived at an idle queue, before the tick was due, and
\* nothing was started
SubmitOnlyEnqueuesWitness ==
    /\ ev.name = "set"
    /\ ~inProgress
    /\ Len(executing) = 0
    /\ tickLeft > 0
    /\ immediateRequests = <<ev.cb>>

\* C15 - the get handler is a pure read: it hands the cached state to the
\* host's callback at once, whatever the queue is doing, and changes nothing.
ReadCached ==
    [][ev'.name = "get"
         => /\ ev'.reply = state
            /\ UNCHANGED <<immediateRequests, AllButImmediate>>]_vars

\* the cache was read while a task was executing and the cache held a value
ReadCachedWitness ==
    /\ ev.name = "get"
    /\ ev.reply \in Bools
    /\ Len(executing) = 1

\* the handlers on a clock, every timer run at the instant it is due
NextP == Handlers \/ AdvancePunctual

\* on that clock, with polls for ever: time passes, every timer fires when it
\* is due and every device call comes back
FairSpecT ==
    /\ InitL
    /\ [][NextP]_vars
    /\ WF_vars(AdvancePunctual)
    /\ WF_vars(Iteration)
    /\ WF_vars(LoadState)
    /\ WF_vars(\E i \in 1..Len(timers) : CooldownFire(i))
    /\ WF_vars(\E i \in 1..Len(executing), r \in answers : Complete(i, r))

\* C16 - set requests are served: every SET request received is eventually
\* started and its callback called, exactly once, however the poll firings
\* fall between the ticks.
SetsServed ==
    \A id \in 1..MaxSetsT : (nextId >= id) ~> (Count(callbacks, id) = 1)

\* C17 - set commands preempt polling: a poll firing that finds the queue
\* idle and a SET request waiting in the immediate lane starts no poll task.
SetPreemptsPoll ==
    [][(ev'.name = "loadState" /\ ~inProgress /\ Len(immediateRequests) > 0)
         => executing' = executing]_vars

\* C18 - busy is never cleared under a running task: at most one cooldown
\* timer is pending, none is pending while a task executes, and the flag goes
\* from true to false only in a step that has no task executing.
NoClearUnderTask ==
    [][/\ Len(timers) <= 1 /\ Len(timers') <= 1
       /\ (Len(executing) > 0 => timers = <<>>)
       /\ (Len(executing') > 0 => timers' = <<>>)
       /\ (inProgress /\ ~inProgress'
             => Len(executing) = 0 /\ Len(executing') = 0)]_vars

\* the cooldown of a finished task has cleared the flag while a SET waits
NoClearUnderTaskWitness ==
    /\ ev.name = "cooldown"
    /\ ~inProgress
    /\ timers = <<>>
    /\ Len(executing) = 0
    /\ Len(immediateRequests) > 0

DeadQueuedLane ==
    [][/\ requests = <<>>
       /\ requests' = <<>>
       /\ (Starts
             => \/ /\ ev'.name = "iteration"
                   /\ Len(immediateRequests) > 0
                   /\ executing' = Append(executing, Head(immediateRequests))
                   /\ immediateRequests' = Tail(immediateRequests)
                \/ /\ ev'.name = "loadState"
                   /\ executing' = Append(executing, PollCb)
                   /\ immediateRequests' = immediateRequests)]_vars

\* after tasks of both kinds have run, a tick finds the queue idle and both
\* lanes empty and starts nothing
DeadQueuedLaneWitness ==
    /\ ev.name = "iteration"
    /\ ~inProgress
    /\ Len(executing) = 0
    /\ immediateRequests = <<>>
    /\ Len(callbacks) > 0
    /\ Len(pollLog) > 0

====
